---- MODULE Spec2Model ----
(***************************************************************************)
(* Model of the Hermes MCP server (src/server.py): the path guard          *)
(* is_path_allowed, the file-operation handlers of call_tool acting on a   *)
(* file system, and the process-backed handlers supervising a child.       *)
(*                                                                         *)
(* Paths.  A path string is a sequence of one-character strings.  A name   *)
(* (path segment) is a non-empty sequence of characters other than "/".    *)
(* A location is a sequence of names: the canonical absolute path of a     *)
(* file-system object, <<>> being the root directory.  The model has one   *)
(* root directory (no drive letters, no UNC anchors) and "/" as the only   *)
(* separator; names are compared exactly.                                  *)
(***************************************************************************)
EXTENDS Integers, Sequences, FiniteSets, TLC

VARIABLES
    fs,        \* the file system: a function from the existing locations to their entries
    cwd,       \* the server's working directory (a location), used for relative paths
    call,      \* the last completed call_tool invocation: name, arguments, outcome
    linesep,   \* os.linesep of the platform: <<"LF">> or <<"CR", "LF">>
    guardIn,   \* SpecGuard: the path string handed to is_path_allowed
    guardOut,  \* SpecGuard: <<>> before the call, then <<b>>, b the BOOLEAN it returned
    proc,      \* SpecProc: the invocation of a process-backed handler and its child
    programs,  \* SpecProc: the executables installed on the machine
    procs,     \* SpecConc: the overlapping invocations and the handle each holds
    children   \* SpecConc: the child processes of the machine, by process id

fileVars == <<fs, cwd, call, linesep, guardIn, guardOut>>
procVars == <<proc, programs, procs, children>>
vars == <<fs, cwd, call, linesep, guardIn, guardOut, proc, programs, procs, children>>

----------------------------------------------------------------------------
(* Bounds *)

MaxPathLen == 7      \* longest path string enumerated for is_path_allowed
MaxDepth == 4        \* deepest location (in segments) a run may create
MaxFileLen == 1      \* largest file (in characters) a run of Spec may create
MaxContentLen == 1   \* longest content argument of write_file / append_to_file in Spec
MaxTextLen == 1      \* longest content argument in SpecText
MaxTextFileLen == 2  \* largest file (in characters) a run of SpecText may create

----------------------------------------------------------------------------
(* Characters, names, locations *)

Alphabet == {"/", ".", "a", "b"}

SeqsUpTo(S, n) == UNION {[1..k -> S] : k \in 0..n}

A == <<"a">>
B == <<"b">>
AB == <<"a", "b">>
D == <<"d">>
F == <<"f">>
L == <<"l">>
DotDot == <<".", ".">>
Dot == <<".">>

\* ALLOWED_PATHS: two configured root directories, here /a and /b/a.
ALLOWED_PATHS == {<<A>>, <<B, A>>}

----------------------------------------------------------------------------
(* pathlib.Path(string): split on the separator; empty and "." segments    *)
(* are dropped, ".." segments are kept; a leading separator makes the path *)
(* absolute.                                                               *)

RECURSIVE SplitParts(_, _, _, _)
SplitParts(s, i, cur, acc) ==
    IF i > Len(s)
    THEN IF cur = <<>> \/ cur = Dot THEN acc ELSE Append(acc, cur)
    ELSE IF s[i] = "/"
         THEN SplitParts(s, i + 1, <<>>,
                         IF cur = <<>> \/ cur = Dot THEN acc ELSE Append(acc, cur))
         ELSE SplitParts(s, i + 1, Append(cur, s[i]), acc)

Path(s) ==
    [absolute |-> (Len(s) > 0 /\ s[1] = "/"),
     parts    |-> SplitParts(s, 1, <<>>, <<>>)]

\* Path.parent: the lexical parent (the last segment dropped; a path
\* without segments is its own parent).
Parent(p) ==
    IF p.parts = <<>> THEN p
    ELSE [p EXCEPT !.parts = SubSeq(p.parts, 1, Len(p.parts) - 1)]

\* Path / name
Child(p, name) == [p EXCEPT !.parts = Append(p.parts, name)]

\* PurePath.parents of a location: every proper ancestor, by whole segments.
Parents(loc) == {SubSeq(loc, 1, k) : k \in 0..(Len(loc) - 1)}

----------------------------------------------------------------------------
(* File-system entries *)

Dir == [kind |-> "dir"]
File(c) == [kind |-> "file", content |-> c]
Link(t) == [kind |-> "link", target |-> t]

Exists(f, loc) == loc \in DOMAIN f
IsDirAt(f, loc) == loc \in DOMAIN f /\ f[loc].kind = "dir"
IsFileAt(f, loc) == loc \in DOMAIN f /\ f[loc].kind = "file"
IsLinkAt(f, loc) == loc \in DOMAIN f /\ f[loc].kind = "link"

Front(loc) == IF loc = <<>> THEN <<>> ELSE SubSeq(loc, 1, Len(loc) - 1)

----------------------------------------------------------------------------
(* Path.resolve() (non-strict realpath): make the path absolute, then walk *)
(* its segments: ".." drops the last segment of what has been resolved so  *)
(* far (the root is its own parent), a symbolic link is replaced by its    *)
(* resolved target, and a segment that does not exist is kept lexically.   *)
(* Link targets are absolute; the file systems modelled have no link       *)
(* cycles.                                                                 *)

RECURSIVE ResolveFrom(_, _, _)
ResolveFrom(f, acc, parts) ==
    IF parts = <<>> THEN acc
    ELSE LET name == Head(parts)
             rest == Tail(parts)
         IN  IF name = DotDot
             THEN ResolveFrom(f, Front(acc), rest)
             ELSE LET np == Append(acc, name)
                  IN  IF IsLinkAt(f, np)
                      THEN ResolveFrom(f, <<>>, f[np].target \o rest)
                      ELSE ResolveFrom(f, np, rest)

resolve(f, wd, p) ==
    IF p.absolute THEN ResolveFrom(f, <<>>, p.parts)
    ELSE ResolveFrom(f, wd, p.parts)

\* Mutant: the comparison is made on the path as given, without resolving it.
is_path_allowed_unresolved(f, wd, p) ==
    LET path == p.parts
    IN  \E allowed \in ALLOWED_PATHS : path = allowed \/ allowed \in Parents(path)

\* Flatten a location to its string form "/n1/n2/...".
RECURSIVE Flat(_)
Flat(loc) == IF loc = <<>> THEN <<>> ELSE <<"/">> \o Head(loc) \o Flat(Tail(loc))

IsStringPrefix(x, y) == Len(x) <= Len(y) /\ SubSeq(y, 1, Len(x)) = x

\* Mutant: containment decided by a string prefix test (startswith).
is_path_allowed_startswith(f, wd, p) ==
    LET path == resolve(f, wd, p)
    IN  \E allowed \in ALLOWED_PATHS : IsStringPrefix(Flat(allowed), Flat(path))

\* is_path_allowed(path)
is_path_allowed(f, wd, p) ==
    LET path == resolve(f, wd, p)
    IN  \E allowed \in ALLOWED_PATHS : path = allowed \/ allowed \in Parents(path)

----------------------------------------------------------------------------
(* The operating system's path lookup, as used by every file-system call   *)
(* the handlers make on the path as given (not on its resolved form):      *)
(* every directory walked through must exist, ".." is the physical parent, *)
(* symbolic links are followed, the one in the last position only when     *)
(* follow is TRUE.  The location found need not exist.                     *)

Found(loc) == [err |-> "", loc |-> loc]
Failed(e) == [err |-> e, loc |-> <<>>]

RECURSIVE Walk(_, _, _, _)
Walk(f, acc, parts, follow) ==
    IF parts = <<>> THEN Found(acc)
    ELSE IF ~Exists(f, acc) THEN Failed("ENOENT")
    ELSE IF ~IsDirAt(f, acc) THEN Failed("ENOTDIR")
    ELSE LET name == Head(parts)
             rest == Tail(parts)
         IN  IF name = DotDot
             THEN Walk(f, Front(acc), rest, follow)
             ELSE LET np == Append(acc, name)
                  IN  IF IsLinkAt(f, np) /\ (rest # <<>> \/ follow)
                      THEN Walk(f, <<>>, f[np].target \o rest, follow)
                      ELSE Walk(f, np, rest, follow)

lookup(f, wd, p, follow) ==
    Walk(f, IF p.absolute THEN <<>> ELSE wd, p.parts, follow)

\* Path.exists(), Path.is_file(), Path.is_dir(): FALSE when the lookup fails.
path_exists(f, wd, p) ==
    LET r == lookup(f, wd, p, TRUE) IN r.err = "" /\ Exists(f, r.loc)

path_is_file(f, wd, p) ==
    LET r == lookup(f, wd, p, TRUE) IN r.err = "" /\ IsFileAt(f, r.loc)

path_is_dir(f, wd, p) ==
    LET r == lookup(f, wd, p, TRUE) IN r.err = "" /\ IsDirAt(f, r.loc)

\* Outcome of a file-system call: an errno name ("" on success) and the
\* file system it leaves.
Done(f) == [err |-> "", fs |-> f]
Errno(e, f) == [err |-> e, fs |-> f]

\* os.mkdir(p)
os_mkdir(f, wd, p) ==
    IF p.parts = <<>> THEN Errno("EEXIST", f)
    ELSE LET last == p.parts[Len(p.parts)]
             par  == lookup(f, wd, Parent(p), TRUE)
         IN  IF par.err # "" THEN Errno(par.err, f)
             ELSE IF ~Exists(f, par.loc) THEN Errno("ENOENT", f)
             ELSE IF ~IsDirAt(f, par.loc) THEN Errno("ENOTDIR", f)
             ELSE IF last = DotDot THEN Errno("EEXIST", f)
             ELSE IF Exists(f, Append(par.loc, last)) THEN Errno("EEXIST", f)
             ELSE Done(f @@ (Append(par.loc, last) :> Dir))

\* Path.mkdir(parents=False, exist_ok=True)
mkdir_exist_ok(f, wd, p) ==
    LET r == os_mkdir(f, wd, p)
    IN  IF r.err = "" \/ r.err = "ENOENT" THEN r
        ELSE IF path_is_dir(f, wd, p) THEN Done(f) ELSE r

\* Mutant: the parents are not created (mkdir without parents=True).
mkdir_no_parents(f, wd, p) == mkdir_exist_ok(f, wd, p)

\* Path.mkdir(parents=True, exist_ok=True): on FileNotFoundError the parent
\* is made first (recursively), then the directory itself; any other OSError
\* is swallowed when the path is a directory.  What the recursion created
\* stays when a later step fails.
RECURSIVE mkdir_parents(_, _, _)
mkdir_parents(f, wd, p) ==
    LET r == os_mkdir(f, wd, p)
    IN  IF r.err = "" THEN r
        ELSE IF r.err = "ENOENT"
             THEN IF Parent(p) = p THEN r
                  ELSE LET up == mkdir_parents(f, wd, Parent(p))
                       IN  IF up.err # "" THEN up
                           ELSE mkdir_exist_ok(up.fs, wd, p)
             ELSE IF path_is_dir(f, wd, p) THEN Done(f) ELSE r

----------------------------------------------------------------------------
(* Text-mode I/O.  Contents are sequences of characters; "LF" and "CR"     *)
(* stand for the line feed and the carriage return.  A text-mode write     *)
(* (write_text, open(..., 'a')) translates every line feed to the          *)
(* platform's line separator; a text-mode read (read_text) translates      *)
(* CR LF and a lone CR to a line feed (universal newlines).                *)

RECURSIVE TextWrite(_, _)
TextWrite(text, sep) ==
    IF text = <<>> THEN <<>>
    ELSE (IF Head(text) = "LF" THEN sep ELSE <<Head(text)>>)
         \o TextWrite(Tail(text), sep)

RECURSIVE TextRead(_)
TextRead(data) ==
    IF data = <<>> THEN <<>>
    ELSE IF Head(data) = "CR"
         THEN IF Len(data) >= 2 /\ data[2] = "LF"
              THEN <<"LF">> \o TextRead(Tail(Tail(data)))
              ELSE <<"LF">> \o TextRead(Tail(data))
         ELSE <<Head(data)>> \o TextRead(Tail(data))

\* open(path, 'w' or 'a') followed by write(data) and close: the location is
\* looked up following links; a directory cannot be opened for writing; a
\* missing file is created in its (existing) directory.
os_write(f, wd, p, data, append) ==
    LET r == lookup(f, wd, p, TRUE)
    IN  IF r.err # "" THEN Errno(r.err, f)
        ELSE IF IsDirAt(f, r.loc) THEN Errno("EISDIR", f)
        ELSE IF IsFileAt(f, r.loc)
             THEN LET new == IF append THEN f[r.loc].content \o data ELSE data
                  IN  Done([f EXCEPT ![r.loc] = File(new)])
             ELSE Done(f @@ (r.loc :> File(data)))

\* os.unlink(p): removes the entry itself (a link is not followed).
os_unlink(f, wd, p) ==
    LET r == lookup(f, wd, p, FALSE)
    IN  IF r.err # "" THEN Errno(r.err, f)
        ELSE IF ~Exists(f, r.loc) THEN Errno("ENOENT", f)
        ELSE IF IsDirAt(f, r.loc) THEN Errno("EISDIR", f)
        ELSE Done([l \in DOMAIN f \ {r.loc} |-> f[l]])

\* os.path.samefile(a, b): both exist and are the same object.
samefile(f, wd, a, b) ==
    LET x == lookup(f, wd, a, TRUE)
        y == lookup(f, wd, b, TRUE)
    IN  x.err = "" /\ y.err = "" /\ Exists(f, x.loc) /\ x.loc = y.loc

\* os.path.basename(str(p)): the last segment, empty for a path without one.
basename(p) == IF p.parts = <<>> THEN <<>> ELSE p.parts[Len(p.parts)]

\* os.path.join(str(p), name)
join(p, name) == IF name = <<>> THEN p ELSE Child(p, name)

IsPrefix(x, y) == Len(x) <= Len(y) /\ SubSeq(y, 1, Len(x)) = x

\* os.rename(src, dst): neither last link is followed; the same object is a
\* no-op; a directory moves with everything below it and cannot replace a
\* file, a non-empty directory or a location inside itself; a file or link
\* replaces an existing file or link and cannot replace a directory.
os_rename(f, wd, src, dst) ==
    LET x == lookup(f, wd, src, FALSE)
        y == lookup(f, wd, dst, FALSE)
    IN  IF x.err # "" THEN Errno(x.err, f)
        ELSE IF ~Exists(f, x.loc) THEN Errno("ENOENT", f)
        ELSE IF y.err # "" THEN Errno(y.err, f)
        ELSE IF basename(src) \in {<<>>, DotDot} \/ basename(dst) \in {<<>>, DotDot}
             THEN Errno("EINVAL", f)
        ELSE IF x.loc = y.loc THEN Done(f)
        ELSE IF IsDirAt(f, x.loc)
             THEN IF IsPrefix(x.loc, y.loc) THEN Errno("EINVAL", f)
                  ELSE IF Exists(f, y.loc) /\ ~IsDirAt(f, y.loc) THEN Errno("ENOTDIR", f)
                  ELSE IF \E l \in DOMAIN f : l # y.loc /\ IsPrefix(y.loc, l)
                       THEN Errno("ENOTEMPTY", f)
                  ELSE LET moved == {l \in DOMAIN f : IsPrefix(x.loc, l)}
                           kept  == (DOMAIN f \ moved) \ {y.loc}
                           from(l) == x.loc \o SubSeq(l, Len(y.loc) + 1, Len(l))
                           new   == {y.loc \o SubSeq(l, Len(x.loc) + 1, Len(l)) : l \in moved}
                       IN  Done([l \in kept \cup new |->
                                    IF l \in new THEN f[from(l)] ELSE f[l]])
             ELSE IF IsDirAt(f, y.loc) THEN Errno("EISDIR", f)
                  ELSE LET kept == (DOMAIN f \ {x.loc}) \cup {y.loc}
                       IN  Done([l \in kept |-> IF l = y.loc THEN f[x.loc] ELSE f[l]])

\* shutil.copy2(src, dst): into dst/basename(src) when dst is a directory;
\* SameFileError when both are the same file; the source is opened first
\* (a directory cannot be), then the destination is written with its bytes.
shutil_copy2(f, wd, src, dst) ==
    LET real == IF path_is_dir(f, wd, dst) THEN join(dst, basename(src)) ELSE dst
        x    == lookup(f, wd, src, TRUE)
    IN  IF samefile(f, wd, src, real) THEN Errno("SameFileError", f)
        ELSE IF x.err # "" THEN Errno(x.err, f)
        ELSE IF ~Exists(f, x.loc) THEN Errno("ENOENT", f)
        ELSE IF IsDirAt(f, x.loc) THEN Errno("EISDIR", f)
        ELSE os_write(f, wd, real, f[x.loc].content, FALSE)

\* shutil.move(src, dst): into dst/basename(src) when dst is a directory
\* (an error when that exists); os.rename, and when it fails a file is
\* copied then unlinked, while a link or a directory is left where it is
\* (the fallbacks symlink() and copytree() fail as the rename did).
shutil_move(f, wd, src, dst) ==
    IF path_is_dir(f, wd, dst) /\ samefile(f, wd, src, dst)
    THEN os_rename(f, wd, src, dst)
    ELSE LET into == path_is_dir(f, wd, dst)
             real == IF into THEN join(dst, basename(src)) ELSE dst
         IN  IF into /\ path_exists(f, wd, real)
             THEN Errno("shutil.Error: destination path already exists", f)
             ELSE LET r == os_rename(f, wd, src, real)
                      x == lookup(f, wd, src, FALSE)
                  IN  IF r.err = "" THEN r
                      ELSE IF x.err = "" /\ IsLinkAt(f, x.loc) THEN r
                      ELSE IF path_is_dir(f, wd, src) THEN r
                      ELSE LET c == shutil_copy2(f, wd, src, real)
                           IN  IF c.err # "" THEN c ELSE os_unlink(c.fs, wd, src)

----------------------------------------------------------------------------
(* call_tool: arguments and results.  The argument map is modelled by the  *)
(* set of keys it holds and the value under each key.  A result is either  *)
(* the text returned (the fixed part of the message, and the variable part *)
(* the claims read: a file's text, a listing) or an exception that leaves  *)
(* call_tool.                                                              *)

NoArgs ==
    [keys |-> {}, path |-> <<>>, content |-> <<>>, source |-> <<>>,
     destination |-> <<>>, pattern |-> <<>>, recursive |-> TRUE]

Has(arguments, key) == key \in arguments.keys

Text(msg, body) == [raised |-> FALSE, text |-> msg, body |-> body]
Raised(exc) == [raised |-> TRUE, text |-> exc, body |-> <<>>]

Out(f, r) == [fs |-> f, result |-> r]

PathNotAllowed == "Error: Path not allowed"

\* name == "read_file"
read_file(f, wd, sep, arguments) ==
    IF ~Has(arguments, "path") THEN Out(f, Raised("KeyError"))
    ELSE LET path == Path(arguments.path)
         IN  IF ~is_path_allowed(f, wd, path) THEN Out(f, Text(PathNotAllowed, <<>>))
             ELSE IF ~path_exists(f, wd, path)
                  THEN Out(f, Text("Error: File not found", <<>>))
             ELSE IF ~path_is_file(f, wd, path)
                  THEN Out(f, Text("Error: Not a file", <<>>))
             ELSE Out(f, Text("", TextRead(f[lookup(f, wd, path, TRUE).loc].content)))

\* name == "write_file"
write_file(f, wd, sep, arguments) ==
    IF ~Has(arguments, "path") \/ ~Has(arguments, "content")
    THEN Out(f, Raised("KeyError"))
    ELSE LET path == Path(arguments.path)
             content == arguments.content
         IN  IF ~is_path_allowed(f, wd, path) THEN Out(f, Text(PathNotAllowed, <<>>))
             ELSE LET m == mkdir_parents(f, wd, Parent(path))
                  IN  IF m.err # "" THEN Out(m.fs, Text("Error writing file", <<>>))
                      ELSE LET w == os_write(m.fs, wd, path, TextWrite(content, sep), FALSE)
                           IN  IF w.err # ""
                               THEN Out(w.fs, Text("Error writing file", <<>>))
                               ELSE Out(w.fs, Text("Successfully wrote", <<>>))

\* name == "append_to_file"
append_to_file(f, wd, sep, arguments) ==
    IF ~Has(arguments, "path") \/ ~Has(arguments, "content")
    THEN Out(f, Raised("KeyError"))
    ELSE LET path == Path(arguments.path)
             content == arguments.content
         IN  IF ~is_path_allowed(f, wd, path) THEN Out(f, Text(PathNotAllowed, <<>>))
             ELSE LET m == mkdir_parents(f, wd, Parent(path))
                  IN  IF m.err # "" THEN Out(m.fs, Text("Error appending to file", <<>>))
                      ELSE LET w == os_write(m.fs, wd, path, TextWrite(content, sep), TRUE)
                           IN  IF w.err # ""
                               THEN Out(w.fs, Text("Error appending to file", <<>>))
                               ELSE Out(w.fs, Text("Successfully appended", <<>>))

\* name == "delete_file"
delete_file(f, wd, sep, arguments) ==
    IF ~Has(arguments, "path") THEN Out(f, Raised("KeyError"))
    ELSE LET path == Path(arguments.path)
         IN  IF ~is_path_allowed(f, wd, path) THEN Out(f, Text(PathNotAllowed, <<>>))
             ELSE IF ~path_exists(f, wd, path)
                  THEN Out(f, Text("Error: File not found", <<>>))
             ELSE IF path_is_file(f, wd, path)
                  THEN LET u == os_unlink(f, wd, path)
                       IN  IF u.err # "" THEN Out(u.fs, Text("Error deleting file", <<>>))
                           ELSE Out(u.fs, Text("Successfully deleted", <<>>))
                  ELSE Out(f, Text("Error: not a file. Use rmdir for directories.", <<>>))

\* Mutant: only the source of copy_file is checked against the allow-list.
copy_file_source_checked(f, wd, sep, arguments) ==
    IF ~Has(arguments, "source") \/ ~Has(arguments, "destination")
    THEN Out(f, Raised("KeyError"))
    ELSE LET source == Path(arguments.source)
             destination == Path(arguments.destination)
         IN  IF ~is_path_allowed(f, wd, source)
             THEN Out(f, Text(PathNotAllowed, <<>>))
             ELSE IF ~path_exists(f, wd, source)
                  THEN Out(f, Text("Error: Source file not found", <<>>))
             ELSE LET m == mkdir_parents(f, wd, Parent(destination))
                  IN  IF m.err # "" THEN Out(m.fs, Text("Error copying file", <<>>))
                      ELSE LET c == shutil_copy2(m.fs, wd, source, destination)
                           IN  IF c.err # ""
                               THEN Out(c.fs, Text("Error copying file", <<>>))
                               ELSE Out(c.fs, Text("Successfully copied", <<>>))

\* name == "copy_file"
copy_file(f, wd, sep, arguments) ==
    IF ~Has(arguments, "source") \/ ~Has(arguments, "destination")
    THEN Out(f, Raised("KeyError"))
    ELSE LET source == Path(arguments.source)
             destination == Path(arguments.destination)
         IN  IF ~is_path_allowed(f, wd, source) \/ ~is_path_allowed(f, wd, destination)
             THEN Out(f, Text(PathNotAllowed, <<>>))
             ELSE IF ~path_exists(f, wd, source)
                  THEN Out(f, Text("Error: Source file not found", <<>>))
             ELSE LET m == mkdir_parents(f, wd, Parent(destination))
                  IN  IF m.err # "" THEN Out(m.fs, Text("Error copying file", <<>>))
                      ELSE LET c == shutil_copy2(m.fs, wd, source, destination)
                           IN  IF c.err # ""
                               THEN Out(c.fs, Text("Error copying file", <<>>))
                               ELSE Out(c.fs, Text("Successfully copied", <<>>))

\* name == "move_file"
move_file(f, wd, sep, arguments) ==
    IF ~Has(arguments, "source") \/ ~Has(arguments, "destination")
    THEN Out(f, Raised("KeyError"))
    ELSE LET source == Path(arguments.source)
             destination == Path(arguments.destination)
         IN  IF ~is_path_allowed(f, wd, source) \/ ~is_path_allowed(f, wd, destination)
             THEN Out(f, Text(PathNotAllowed, <<>>))
             ELSE IF ~path_exists(f, wd, source)
                  THEN Out(f, Text("Error: Source file not found", <<>>))
             ELSE LET m == mkdir_parents(f, wd, Parent(destination))
                  IN  IF m.err # "" THEN Out(m.fs, Text("Error moving file", <<>>))
                      ELSE LET c == shutil_move(m.fs, wd, source, destination)
                           IN  IF c.err # ""
                               THEN Out(c.fs, Text("Error moving file", <<>>))
                               ELSE Out(c.fs, Text("Successfully moved", <<>>))

\* name == "file_exists"
file_exists(f, wd, sep, arguments) ==
    IF ~Has(arguments, "path") THEN Out(f, Raised("KeyError"))
    ELSE LET path == Path(arguments.path)
         IN  IF ~is_path_allowed(f, wd, path) THEN Out(f, Text(PathNotAllowed, <<>>))
             ELSE IF path_exists(f, wd, path)
                  THEN Out(f, Text("Exists",
                                   <<IF path_is_dir(f, wd, path) THEN "directory"
                                     ELSE IF path_is_file(f, wd, path) THEN "file"
                                     ELSE "unknown">>))
                  ELSE Out(f, Text("Does not exist", <<>>))

\* name == "get_file_info" (the time stamps are not modelled; the size of a
\* directory is reported as 0)
get_file_info(f, wd, sep, arguments) ==
    IF ~Has(arguments, "path") THEN Out(f, Raised("KeyError"))
    ELSE LET path == Path(arguments.path)
         IN  IF ~is_path_allowed(f, wd, path) THEN Out(f, Text(PathNotAllowed, <<>>))
             ELSE IF ~path_exists(f, wd, path)
                  THEN Out(f, Text("Error: Path not found", <<>>))
             ELSE LET loc == lookup(f, wd, path, TRUE).loc
                  IN  IF IsDirAt(f, loc) THEN Out(f, Text("Path:", <<"directory", 0>>))
                      ELSE Out(f, Text("Path:", <<"file", Len(f[loc].content)>>))

\* The entries of the directory at loc.
Entries(f, loc) == {l \in DOMAIN f : Len(l) = Len(loc) + 1 /\ IsPrefix(loc, l)}

\* The kind of the object an entry denotes once links are followed.
KindFollowed(f, loc) ==
    LET r == Walk(f, <<>>, loc, TRUE)
    IN  IF r.err = "" /\ Exists(f, r.loc) THEN f[r.loc].kind ELSE "none"

\* The order of characters and of names (sorted() on the entries of one
\* directory compares their names).
Chars == <<".", "a", "b", "d", "f", "l">>
Rank(c) == CHOOSE i \in 1..Len(Chars) : Chars[i] = c

RECURSIVE NameLess(_, _)
NameLess(x, y) ==
    IF y = <<>> THEN FALSE
    ELSE IF x = <<>> THEN TRUE
    ELSE IF Head(x) # Head(y) THEN Rank(Head(x)) < Rank(Head(y))
    ELSE NameLess(Tail(x), Tail(y))

Last(loc) == loc[Len(loc)]

RECURSIVE sorted(_)
sorted(S) ==
    IF S = {} THEN <<>>
    ELSE LET m == CHOOSE x \in S : \A y \in S \ {x} : NameLess(Last(x), Last(y))
         IN  <<m>> \o sorted(S \ {m})

\* The entries of a directory in the order the operating system lists them
\* (some fixed order).
RECURSIVE scandir(_)
scandir(S) ==
    IF S = {} THEN <<>>
    ELSE LET x == CHOOSE x \in S : TRUE IN <<x>> \o scandir(S \ {x})

Map(op(_), seq) == [i \in 1..Len(seq) |-> op(seq[i])]

RECURSIVE Concat(_)
Concat(seqs) == IF seqs = <<>> THEN <<>> ELSE Head(seqs) \o Concat(Tail(seqs))

\* name == "list_directory"
list_directory(f, wd, sep, arguments) ==
    IF ~Has(arguments, "path") THEN Out(f, Raised("KeyError"))
    ELSE LET path == Path(arguments.path)
         IN  IF ~is_path_allowed(f, wd, path) THEN Out(f, Text(PathNotAllowed, <<>>))
             ELSE IF ~path_exists(f, wd, path)
                  THEN Out(f, Text("Error: Directory not found", <<>>))
             ELSE IF ~path_is_dir(f, wd, path)
                  THEN Out(f, Text("Error: Not a directory", <<>>))
             ELSE LET loc == lookup(f, wd, path, TRUE).loc
                      item(l) == <<IF KindFollowed(f, l) = "dir" THEN "[DIR]" ELSE "[FILE]",
                                   Last(l)>>
                      items == Map(item, sorted(Entries(f, loc)))
                  IN  IF items = <<>> THEN Out(f, Text("(empty directory)", <<>>))
                      ELSE Out(f, Text("", items))

\* fnmatch.fnmatch(name, pattern): "*" matches any run of characters, "?"
\* any one character, any other character itself (the patterns modelled
\* hold no bracket expression).
RECURSIVE fnmatch(_, _)
fnmatch(name, pat) ==
    IF pat = <<>> THEN name = <<>>
    ELSE IF Head(pat) = "*"
         THEN fnmatch(name, Tail(pat)) \/ (name # <<>> /\ fnmatch(Tail(name), pat))
         ELSE /\ name # <<>>
              /\ (Head(pat) = "?" \/ Head(pat) = Head(name))
              /\ fnmatch(Tail(name), Tail(pat))

\* os.walk(top): the directories visited, top first; a directory entered
\* through a symbolic link is listed by its parent but not visited.
RECURSIVE os_walk(_, _)
os_walk(f, pending) ==
    IF pending = <<>> THEN <<>>
    ELSE LET d == Head(pending)
             subdirs == SelectSeq(scandir(Entries(f, d)), LAMBDA e : IsDirAt(f, e))
         IN  <<d>> \o os_walk(f, subdirs \o Tail(pending))

\* name == "search_files"
search_files(f, wd, sep, arguments) ==
    IF ~Has(arguments, "path") \/ ~Has(arguments, "pattern")
    THEN Out(f, Raised("KeyError"))
    ELSE LET path == Path(arguments.path)
             pattern == arguments.pattern
             recursive == IF Has(arguments, "recursive") THEN arguments.recursive ELSE TRUE
         IN  IF ~is_path_allowed(f, wd, path) THEN Out(f, Text(PathNotAllowed, <<>>))
             ELSE IF ~path_exists(f, wd, path)
                  THEN Out(f, Text("Error: Directory not found", <<>>))
             ELSE LET loc == lookup(f, wd, path, TRUE).loc
                      files(d) == SelectSeq(scandir(Entries(f, d)),
                                            LAMBDA e : KindFollowed(f, e) # "dir")
                      filter(d) == SelectSeq(files(d), LAMBDA e : fnmatch(Last(e), pattern))
                      walked == IF IsDirAt(f, loc) THEN os_walk(f, <<loc>>) ELSE <<>>
                      matches ==
                          IF recursive THEN Concat(Map(filter, walked))
                          ELSE SelectSeq(scandir(Entries(f, loc)),
                                         LAMBDA e : /\ KindFollowed(f, e) = "file"
                                                    /\ fnmatch(Last(e), pattern))
                  IN  IF ~recursive /\ ~IsDirAt(f, loc)
                      THEN Out(f, Text("Error searching files", <<>>))
                      ELSE IF matches = <<>> THEN Out(f, Text("No files matching", <<>>))
                      ELSE Out(f, Text("Found", matches))

\* name == "get_time" (the clock value is not modelled)
get_time(f, wd, sep, arguments) == Out(f, Text("time", <<>>))

\* the final else branch of call_tool
unknown_tool(f, wd, sep, arguments) == Out(f, Text("Unknown tool", <<>>))

FileTools ==
    {"read_file", "write_file", "append_to_file", "delete_file", "copy_file",
     "move_file", "file_exists", "get_file_info", "list_directory", "search_files"}

\* call_tool(name, arguments), for the handlers that do not suspend.
call_tool(f, wd, sep, name, arguments) ==
    CASE name = "read_file" -> read_file(f, wd, sep, arguments)
      [] name = "write_file" -> write_file(f, wd, sep, arguments)
      [] name = "append_to_file" -> append_to_file(f, wd, sep, arguments)
      [] name = "delete_file" -> delete_file(f, wd, sep, arguments)
      [] name = "copy_file" -> copy_file(f, wd, sep, arguments)
      [] name = "move_file" -> move_file(f, wd, sep, arguments)
      [] name = "file_exists" -> file_exists(f, wd, sep, arguments)
      [] name = "get_file_info" -> get_file_info(f, wd, sep, arguments)
      [] name = "list_directory" -> list_directory(f, wd, sep, arguments)
      [] name = "search_files" -> search_files(f, wd, sep, arguments)
      [] name = "get_time" -> get_time(f, wd, sep, arguments)
      [] OTHER -> unknown_tool(f, wd, sep, arguments)

----------------------------------------------------------------------------
(* The process-backed handlers.  run_powershell and run_git start a child  *)
(* process and suspend on it; fetch_url and http_request suspend on an     *)
(* HTTP exchange.  An invocation is a record: pc is the await the handler  *)
(* is suspended at, child the process it spawned, elapsed the time since   *)
(* its timer was armed, log the steps the handler has taken, result the    *)
(* value call_tool returned.                                               *)

PowershellTimeout == 30   \* timeout=30 of run_powershell
GitTimeout == 10          \* timeout=10 of run_git
FetchTimeout == 15        \* timeout=15.0 of fetch_url
HttpTimeout == 30         \* timeout=30.0 of http_request
Limit == 50000            \* longest content returned untruncated
MarkerLen == 17           \* len("\n\n... (truncated)")

ProcNoArgs ==
    [keys |-> {}, command |-> <<>>, args |-> <<>>, working_directory |-> <<>>,
     url |-> <<>>, method |-> <<>>, raw |-> FALSE]

PowershellExe == "powershell.exe"
GitCmd == "C:\\Program Files\\Git\\cmd\\git.exe"
GitBin == "C:\\Program Files\\Git\\bin\\git.exe"

\* A child process.  state: "running", "killed" (the kill signal is sent,
\* the process not yet gone) or "exited"; stdin: what its input stream is
\* connected to; read: what a read of its input returned; pipes: "open"
\* while some process holds the write end of its stdout/stderr pipes,
\* "closed" once the handler's read ends are at end of file.
NoChild ==
    [state |-> "none", program |-> "none", argv |-> <<>>, stdin |-> "none",
     cwd |-> <<>>, read |-> "none", pipes |-> "none", returncode |-> 0,
     stdout |-> <<>>, stderr |-> <<>>]

NoResult == [raised |-> FALSE, text |-> "none", body |-> <<>>]

\* A text of an HTTP exchange is a sequence of runs [ch, n]: n >= 1 times
\* the character ch, neighbouring runs holding different characters.
Run(c, n) == [ch |-> c, n |-> n]

NoResponse ==
    [status |-> 0, text |-> <<>>, stripped |-> <<>>, json |-> FALSE, jsonText |-> <<>>]

IdleProc ==
    [pc |-> "idle", name |-> "none", arguments |-> ProcNoArgs, child |-> NoChild,
     elapsed |-> 0, atDeadline |-> "none", log |-> <<>>, result |-> NoResult,
     response |-> NoResponse]

\* return [TextContent(...)], or an exception leaving call_tool
Return(h, r) == [h EXCEPT !.pc = "returned", !.result = r, !.log = Append(@, "return")]

Spawned(c) == [ok |-> TRUE, child |-> c, error |-> "none"]
SpawnFailed(e) == [ok |-> FALSE, child |-> NoChild, error |-> e]

\* asyncio.create_subprocess_exec(program, *argv, stdin=, stdout=PIPE,
\* stderr=PIPE, cwd=).  dir is <<>> for cwd=None (the child inherits the
\* server's working directory) or <<s>> for the string s.  It raises when the
\* program is not installed or the directory cannot be entered.
create_subprocess_exec(f, wd, installed, program, argv, stdin, dir) ==
    IF program \notin installed THEN SpawnFailed("FileNotFoundError")
    ELSE IF dir # <<>> /\ ~path_exists(f, wd, Path(dir[1]))
         THEN SpawnFailed("FileNotFoundError")
    ELSE IF dir # <<>> /\ ~path_is_dir(f, wd, Path(dir[1]))
         THEN SpawnFailed("NotADirectoryError")
    ELSE Spawned([state |-> "running", program |-> program, argv |-> argv,
                  stdin |-> stdin,
                  cwd |-> IF dir = <<>> THEN wd
                          ELSE lookup(f, wd, Path(dir[1]), TRUE).loc,
                  read |-> "none", pipes |-> "open", returncode |-> 0,
                  stdout |-> <<>>, stderr |-> <<>>])

\* str.split(): the maximal runs of characters other than blanks
RECURSIVE split(_, _, _)
split(s, cur, acc) ==
    IF s = <<>> THEN (IF cur = <<>> THEN acc ELSE Append(acc, cur))
    ELSE IF Head(s) = " "
         THEN split(Tail(s), <<>>, IF cur = <<>> THEN acc ELSE Append(acc, cur))
    ELSE split(Tail(s), Append(cur, Head(s)), acc)

\* the spawn of run_powershell
powershell_spawn(f, wd, installed, command, working_dir) ==
    create_subprocess_exec(f, wd, installed, PowershellExe,
        <<"-ExecutionPolicy", "Bypass", "-Command", command>>, "DEVNULL", working_dir)

\* the spawn of run_git with the child's input inherited from the server
git_spawn_stdin_inherited(f, wd, installed, git_exe, args_list, working_dir) ==
    create_subprocess_exec(f, wd, installed, git_exe, args_list, "INHERIT", working_dir)

\* the spawn of run_git
git_spawn(f, wd, installed, git_exe, args_list, working_dir) ==
    create_subprocess_exec(f, wd, installed, git_exe, args_list, "DEVNULL", working_dir)

\* name == "run_powershell", up to the await of process.communicate()
run_powershell(f, wd, installed, arguments) ==
    LET h == [IdleProc EXCEPT !.name = "run_powershell", !.arguments = arguments]
    IN  IF ~Has(arguments, "command") THEN Return(h, Raised("KeyError"))
        ELSE LET working_dir == IF Has(arguments, "working_directory")
                                THEN <<arguments.working_directory>> ELSE <<>>
                 sp == powershell_spawn(f, wd, installed, arguments.command, working_dir)
             IN  IF ~sp.ok THEN Return(h, Text("Error running command", sp.error))
                 ELSE [h EXCEPT !.pc = "communicate", !.child = sp.child,
                                !.log = <<"spawn">>]

\* name == "run_git", up to the await of process.communicate()
run_git(f, wd, installed, arguments) ==
    LET h == [IdleProc EXCEPT !.name = "run_git", !.arguments = arguments]
    IN  IF ~Has(arguments, "args") \/ ~Has(arguments, "working_directory")
        THEN Return(h, Raised("KeyError"))
        ELSE IF GitCmd \notin installed /\ GitBin \notin installed
             THEN Return(h, Text("Error: Git not found", <<>>))
        ELSE LET git_exe == IF GitCmd \in installed THEN GitCmd ELSE GitBin
                 args_list == split(arguments.args, <<>>, <<>>)
                 sp == git_spawn(f, wd, installed, git_exe, args_list,
                                 <<arguments.working_directory>>)
             IN  IF ~sp.ok THEN Return(h, Text("Error running git", sp.error))
                 ELSE [h EXCEPT !.pc = "communicate", !.child = sp.child,
                                !.log = <<"spawn">>]

Timeout(name) ==
    CASE name = "run_powershell" -> PowershellTimeout
      [] name = "run_git" -> GitTimeout
      [] name = "fetch_url" -> FetchTimeout
      [] name = "http_request" -> HttpTimeout
      [] OTHER -> 0

TimedOut(name) ==
    Text(CASE name = "run_powershell" -> "Error: Command timed out after 30 seconds"
           [] name = "run_git" -> "Error: Git command timed out after 10 seconds"
           [] name = "fetch_url" -> "Error: Request timed out after 15 seconds"
           [] OTHER -> "Error: Request timed out after 30 seconds",
         <<>>)

\* the text of the handler's except Exception branch
ErrorText(name) ==
    CASE name = "run_powershell" -> "Error running command"
      [] name = "run_git" -> "Error running git"
      [] name = "fetch_url" -> "Error fetching URL"
      [] OTHER -> "Error making request"

\* bytes.decode('utf-8', errors='replace'): "BAD" stands for a byte that is
\* no valid UTF-8, decoded to the replacement character
decode(bytes) ==
    [i \in 1..Len(bytes) |-> IF bytes[i] = "BAD" THEN "U+FFFD" ELSE bytes[i]]

Whitespace == {" ", "LF"}

RECURSIVE lstrip(_)
lstrip(s) == IF s # <<>> /\ Head(s) \in Whitespace THEN lstrip(Tail(s)) ELSE s

RECURSIVE rstrip(_)
rstrip(s) ==
    IF s # <<>> /\ s[Len(s)] \in Whitespace THEN rstrip(SubSeq(s, 1, Len(s) - 1)) ELSE s

\* str.strip()
strip(s) == rstrip(lstrip(s))

\* the output with stderr appended to stdout without the marker
combine_without_marker(stdout, stderr) ==
    strip(decode(stdout)) \o strip(decode(stderr))

\* output: the stripped stdout, then the stripped stderr, the marker between
\* them when both are non-empty
combine(stdout, stderr) ==
    LET stdout_text == strip(decode(stdout))
        stderr_text == strip(decode(stderr))
    IN  IF stderr_text = <<>> THEN stdout_text
        ELSE IF stdout_text = <<>> THEN stderr_text
        ELSE stdout_text \o <<"\n--- STDERR ---\n">> \o stderr_text

\* f"Exit code: {process.returncode}\n\n{output}"
ExitCode(returncode, output) ==
    Text("Exit code", [returncode |-> returncode, output |-> output])

render_powershell(c) ==
    LET output == combine(c.stdout, c.stderr)
    IN  ExitCode(c.returncode, IF output = <<>> THEN <<"(no output)">> ELSE output)

render_git(c) ==
    LET output == combine(c.stdout, c.stderr)
    IN  ExitCode(c.returncode,
            IF output # <<>> THEN output
            ELSE IF c.returncode = 0
                 THEN <<"(Command executed successfully with no output)">>
            ELSE <<"(Command failed with exit code but no output)">>)

\* process.communicate() has returned (stdout, stderr): decode, render, return
communicate_done(h) ==
    Return(h, IF h.name = "run_powershell" THEN render_powershell(h.child)
              ELSE render_git(h.child))

\* The timer of asyncio.wait_for fires: communicate() is cancelled, and
\* TimeoutError is raised in the handler once the cancellation has been
\* delivered.  The child goes on running meanwhile.
deadline(h) ==
    [h EXCEPT !.pc = "cancelling", !.atDeadline = h.child.state,
              !.log = Append(@, "deadline")]

\* process.kill().  Once the child has exited and its pipes are at end of
\* file the transport has finished and kill() raises ProcessLookupError; on a
\* child that has exited while its pipes are still open it does nothing.
kill(c) ==
    IF c.state = "exited" /\ c.pipes = "closed" THEN [raised |-> TRUE, child |-> c]
    ELSE IF c.state = "running"
         THEN [raised |-> FALSE, child |-> [c EXCEPT !.state = "killed"]]
    ELSE [raised |-> FALSE, child |-> c]

\* the timeout path returning right after process.kill(), without the wait
timeout_kill_without_wait(h) ==
    LET k == kill(h.child)
    IN  Return([h EXCEPT !.child = k.child, !.log = Append(@, "kill")], TimedOut(h.name))

\* except asyncio.TimeoutError: process.kill(), up to the await of
\* process.wait(); an exception of kill() is caught by the outer except.
timeout_kill(h) ==
    LET k == kill(h.child)
    IN  IF k.raised
        THEN Return([h EXCEPT !.log = Append(@, "kill raised")],
                    Text(ErrorText(h.name), "ProcessLookupError"))
        ELSE [h EXCEPT !.pc = "wait", !.child = k.child, !.log = Append(@, "kill")]

\* process.wait() has returned: return the timed-out result
wait_done(h) == Return([h EXCEPT !.log = Append(@, "wait")], TimedOut(h.name))

\* name == "fetch_url", up to the await of client.get
fetch_url(arguments) ==
    LET h == [IdleProc EXCEPT !.name = "fetch_url", !.arguments = arguments]
    IN  IF ~Has(arguments, "url") THEN Return(h, Raised("KeyError"))
        ELSE [h EXCEPT !.pc = "request", !.log = <<"request">>]

\* name == "http_request", up to the await of client.request
http_request(arguments) ==
    LET h == [IdleProc EXCEPT !.name = "http_request", !.arguments = arguments]
    IN  IF ~Has(arguments, "method") \/ ~Has(arguments, "url")
        THEN Return(h, Raised("KeyError"))
        ELSE [h EXCEPT !.pc = "request", !.log = <<"request">>]

\* len(text)
RECURSIVE Length(_)
Length(t) == IF t = <<>> THEN 0 ELSE Head(t).n + Length(Tail(t))

\* text[:k]
RECURSIVE Take(_, _)
Take(t, k) ==
    IF t = <<>> \/ k <= 0 THEN <<>>
    ELSE IF Head(t).n >= k THEN <<Run(Head(t).ch, k)>>
    ELSE <<Head(t)>> \o Take(Tail(t), k - Head(t).n)

\* "\n\n... (truncated)", as one run of its MarkerLen characters
TruncationMarker == <<Run("\n\n... (truncated)", MarkerLen)>>

\* the truncation with the text of exactly Limit characters cut as well
Truncate_from_limit(content) ==
    IF Length(content) >= Limit THEN Take(content, Limit - 1) \o TruncationMarker
    ELSE content

\* if len(content) > 50000: content = content[:50000] + "\n\n... (truncated)"
Truncate(content) ==
    IF Length(content) > Limit THEN Take(content, Limit) \o TruncationMarker
    ELSE content

\* fetch_url once the response is there.  response.text is the body,
\* response.stripped what strip_html makes of it (some text: the reduction
\* itself is not modelled).
fetch_done(h, response) ==
    LET raw == Has(h.arguments, "raw") /\ h.arguments.raw
        content == IF raw THEN response.text ELSE response.stripped
    IN  Return([h EXCEPT !.response = response],
               Text("Status", [status |-> response.status, content |-> Truncate(content)]))

\* http_request once the response is there.  response.json tells whether the
\* body parses as JSON, response.jsonText is json.dumps(response.json(),
\* indent=2) (some text).
http_done(h, response) ==
    LET response_body == IF response.json THEN response.jsonText ELSE response.text
    IN  Return([h EXCEPT !.response = response],
               Text("Status", [status |-> response.status,
                               content |-> Truncate(response_body)]))

----------------------------------------------------------------------------
(* File systems the path guard is exercised on.  /a and /b/a are the       *)
(* allowed roots, /b and /ab lie outside (/ab shares a string prefix with  *)
(* /a).  In LinkFS /a/b is a symbolic link leaving the root /a and /b/b is *)
(* a symbolic link entering it.                                            *)

BaseFS ==
    (<<>> :> Dir) @@ (<<A>> :> Dir) @@ (<<B>> :> Dir) @@ (<<B, A>> :> Dir)
    @@ (<<AB>> :> Dir)

LinkFS == BaseFS @@ (<<A, B>> :> Link(<<B>>)) @@ (<<B, B>> :> Link(<<A>>))

GuardFileSystems == {BaseFS, LinkFS}

GuardDirs == {<<>>, <<A>>}

\* Path strings handed to the guard.  A string starting with two separators
\* names another anchor (a UNC share, an implementation-defined root) and is
\* not modelled.
PathStrings ==
    {s \in SeqsUpTo(Alphabet, MaxPathLen) :
        ~(Len(s) >= 2 /\ s[1] = "/" /\ s[2] = "/")}

NoCall == [name |-> "none"]

InitGuard ==
    /\ fs \in GuardFileSystems
    /\ cwd \in GuardDirs
    /\ call = NoCall
    /\ linesep = <<"LF">>
    /\ guardIn \in PathStrings
    /\ guardOut = <<>>
    /\ proc = IdleProc
    /\ programs = {}
    /\ procs = <<>>
    /\ children = <<>>

\* One evaluation of is_path_allowed(Path(guardIn)).
CheckPath ==
    /\ guardOut = <<>>
    /\ guardOut' = <<is_path_allowed(fs, cwd, Path(guardIn))>>
    /\ UNCHANGED <<fs, cwd, call, linesep, guardIn, procVars>>

NextGuard == CheckPath

SpecGuard == InitGuard /\ [][NextGuard]_vars

----------------------------------------------------------------------------
(* The file operations.  The server handles one request at a time: an      *)
(* invocation runs to its result (no file handler suspends), the result is *)
(* held in call until the transport has sent the reply.                    *)

\* The file system at start: the roots /a (holding the file /a/f and the
\* link /a/l to /b) and /b/a, and outside them /b/f and /ab/f.
FileFS ==
    (<<>> :> Dir) @@ (<<A>> :> Dir) @@ (<<A, F>> :> File(<<"x">>))
    @@ (<<A, L>> :> Link(<<B>>))
    @@ (<<B>> :> Dir) @@ (<<B, F>> :> File(<<"x">>)) @@ (<<B, A>> :> Dir)
    @@ (<<AB>> :> Dir) @@ (<<AB, F>> :> File(<<"x">>))

\* The path arguments: inside a root (/a/f, which exists; /a/d/f, whose
\* parent is missing; /a/f/d/f, below /a/f; the root /a itself) and outside
\* every root (directly, by traversal, by string prefix, through the link).
ArgStrings ==
    {Flat(<<A, F>>), Flat(<<A, D, F>>), Flat(<<A, F, D, F>>), Flat(<<A>>),
     Flat(<<B, F>>), Flat(<<A, DotDot, B, F>>), Flat(<<AB, F>>), Flat(<<A, L, F>>)}

ContentChars == {"x"}
Contents == SeqsUpTo(ContentChars, MaxContentLen)
Patterns == {<<"*">>, <<"f">>}

PathArgs ==
    {NoArgs} \cup {[NoArgs EXCEPT !.keys = {"path"}, !.path = s] : s \in ArgStrings}

WriteArgs ==
    PathArgs \cup
    {[NoArgs EXCEPT !.keys = {"path", "content"}, !.path = s, !.content = c] :
        s \in ArgStrings, c \in Contents}

CopyArgs ==
    {NoArgs}
    \cup {[NoArgs EXCEPT !.keys = {"source"}, !.source = s] : s \in ArgStrings}
    \cup {[NoArgs EXCEPT !.keys = {"source", "destination"},
                         !.source = s, !.destination = d] :
            s \in ArgStrings, d \in ArgStrings}

SearchArgs ==
    PathArgs
    \cup {[NoArgs EXCEPT !.keys = {"path", "pattern"}, !.path = s, !.pattern = g] :
            s \in ArgStrings, g \in Patterns}
    \cup {[NoArgs EXCEPT !.keys = {"path", "pattern", "recursive"},
                         !.path = s, !.pattern = g, !.recursive = r] :
            s \in ArgStrings, g \in Patterns, r \in BOOLEAN}

\* The bounds of a run: no location deeper than MaxDepth, no file larger
\* than the given size.
Within(f, size) ==
    \A l \in DOMAIN f :
        /\ Len(l) <= MaxDepth
        /\ f[l].kind = "file" => Len(f[l].content) <= size

Init ==
    /\ fs = FileFS
    /\ cwd = <<>>
    /\ call = NoCall
    /\ linesep \in {<<"LF">>, <<"CR", "LF">>}
    /\ guardIn = <<>>
    /\ guardOut = <<>>
    /\ proc = IdleProc
    /\ programs = {}
    /\ procs = <<>>
    /\ children = <<>>

\* One invocation call_tool(name, arguments), from the request to its result.
InvokeWithin(name, arguments, size) ==
    /\ call = NoCall
    /\ LET out == call_tool(fs, cwd, linesep, name, arguments)
       IN  /\ Within(out.fs, size)
           /\ fs' = out.fs
           /\ call' = [name |-> name, arguments |-> arguments,
                       result |-> out.result, before |-> fs]
    /\ UNCHANGED <<cwd, linesep, guardIn, guardOut, procVars>>

Invoke(name, arguments) == InvokeWithin(name, arguments, MaxFileLen)

ReadFile == \E a \in PathArgs : Invoke("read_file", a)
WriteFile == \E a \in WriteArgs : Invoke("write_file", a)
AppendToFile == \E a \in WriteArgs : Invoke("append_to_file", a)
DeleteFile == \E a \in PathArgs : Invoke("delete_file", a)
CopyFile == \E a \in CopyArgs : Invoke("copy_file", a)
MoveFile == \E a \in CopyArgs : Invoke("move_file", a)
FileExists == \E a \in PathArgs : Invoke("file_exists", a)
GetFileInfo == \E a \in PathArgs : Invoke("get_file_info", a)
ListDirectory == \E a \in PathArgs : Invoke("list_directory", a)
SearchFiles == \E a \in SearchArgs : Invoke("search_files", a)
GetTime == Invoke("get_time", NoArgs)
UnknownTool == \E a \in PathArgs : Invoke("no_such_tool", a)

\* The transport sends the reply; the next request can be handled.
Reply ==
    /\ call # NoCall
    /\ call' = NoCall
    /\ UNCHANGED <<fs, cwd, linesep, guardIn, guardOut, procVars>>

Next ==
    \/ ReadFile
    \/ WriteFile
    \/ AppendToFile
    \/ DeleteFile
    \/ CopyFile
    \/ MoveFile
    \/ FileExists
    \/ GetFileInfo
    \/ ListDirectory
    \/ SearchFiles
    \/ GetTime
    \/ UnknownTool
    \/ Reply

Spec == Init /\ [][Next]_vars

----------------------------------------------------------------------------
(* Text contents: write_file, append_to_file and read_file on two paths,   *)
(* with contents that hold line feeds and carriage returns.                *)

TextChars == {"x", "LF", "CR"}
TextContents == SeqsUpTo(TextChars, MaxTextLen)
TextPaths == {Flat(<<A, F>>), Flat(<<A, D, F>>)}

TextPathArgs == {[NoArgs EXCEPT !.keys = {"path"}, !.path = s] : s \in TextPaths}

TextWriteArgs ==
    {[NoArgs EXCEPT !.keys = {"path", "content"}, !.path = s, !.content = c] :
        s \in TextPaths, c \in TextContents}

WriteText == \E a \in TextWriteArgs : InvokeWithin("write_file", a, MaxTextFileLen)
AppendText == \E a \in TextWriteArgs : InvokeWithin("append_to_file", a, MaxTextFileLen)
ReadText == \E a \in TextPathArgs : InvokeWithin("read_file", a, MaxTextFileLen)
DeleteText == \E a \in TextPathArgs : InvokeWithin("delete_file", a, MaxTextFileLen)

NextText ==
    \/ WriteText
    \/ AppendText
    \/ ReadText
    \/ DeleteText
    \/ Reply

SpecText == Init /\ [][NextText]_vars

----------------------------------------------------------------------------
(* search_files on directory trees: every parent-closed part of FullTree,  *)
(* which holds regular files, nested directories, a link to a directory    *)
(* (/a/l) and a link to a file (/a/d/l); a link whose target is not in the *)
(* part is dangling.                                                       *)

FullTree ==
    (<<>> :> Dir) @@ (<<A>> :> Dir) @@ (<<A, F>> :> File(<<"x">>))
    @@ (<<A, B>> :> File(<<"x">>)) @@ (<<A, D>> :> Dir)
    @@ (<<A, D, F>> :> File(<<"x">>)) @@ (<<A, D, D>> :> Dir)
    @@ (<<A, D, D, F>> :> File(<<"x">>))
    @@ (<<A, L>> :> Link(<<A, D>>)) @@ (<<A, D, L>> :> Link(<<A, F>>))

SearchTrees ==
    {[l \in S |-> FullTree[l]] :
        S \in {T \in SUBSET DOMAIN FullTree :
                  /\ {<<>>, <<A>>} \subseteq T
                  /\ \A l \in T : l # <<>> => Front(l) \in T}}

SearchPatterns == {<<"*">>, <<"f">>, <<"?">>}

SearchTreeArgs ==
    {[NoArgs EXCEPT !.keys = {"path", "pattern"}, !.path = s, !.pattern = g] :
        s \in {Flat(<<A>>), Flat(<<A, D>>)}, g \in SearchPatterns}
    \cup {[NoArgs EXCEPT !.keys = {"path", "pattern", "recursive"},
                         !.path = s, !.pattern = g, !.recursive = r] :
            s \in {Flat(<<A>>), Flat(<<A, D>>)}, g \in SearchPatterns, r \in BOOLEAN}

InitSearch ==
    /\ fs \in SearchTrees
    /\ cwd = <<>>
    /\ call = NoCall
    /\ linesep = <<"LF">>
    /\ guardIn = <<>>
    /\ guardOut = <<>>
    /\ proc = IdleProc
    /\ programs = {}
    /\ procs = <<>>
    /\ children = <<>>

SearchTree == \E a \in SearchTreeArgs : Invoke("search_files", a)

NextSearch ==
    \/ SearchTree
    \/ Reply

SpecSearch == InitSearch /\ [][NextSearch]_vars

----------------------------------------------------------------------------
(* The process-backed operations: one invocation at a time, the child and  *)
(* the HTTP peer acting on their own, time advancing by Quantum.           *)

Quantum == 5   \* time units one Tick advances the clock by

WorkDirs == {Flat(<<A>>), Flat(<<B>>), Flat(<<A, D>>)}

PowershellArgs ==
    {ProcNoArgs, [ProcNoArgs EXCEPT !.keys = {"command"}, !.command = <<"c">>]}
    \cup {[ProcNoArgs EXCEPT !.keys = {"command", "working_directory"},
                             !.command = <<"c">>, !.working_directory = d] :
            d \in WorkDirs}

GitArgs ==
    {[ProcNoArgs EXCEPT !.keys = {"args"}, !.args = <<"s">>]}
    \cup {[ProcNoArgs EXCEPT !.keys = {"args", "working_directory"},
                             !.args = s, !.working_directory = d] :
            s \in {<<"s">>, <<"s", " ", "v">>}, d \in WorkDirs}

UrlArgs ==
    {ProcNoArgs, [ProcNoArgs EXCEPT !.keys = {"url"}, !.url = <<"u">>],
     [ProcNoArgs EXCEPT !.keys = {"url", "raw"}, !.url = <<"u">>, !.raw = TRUE]}

RequestArgs ==
    {[ProcNoArgs EXCEPT !.keys = {"url"}, !.url = <<"u">>],
     [ProcNoArgs EXCEPT !.keys = {"method", "url"}, !.url = <<"u">>,
                        !.method = <<"GET">>]}

ProgramSets == SUBSET {PowershellExe, GitCmd, GitBin}

OutputBytes == {<<>>, <<"o">>, <<" ">>, <<"BAD">>, <<"o", "LF">>}
ReturnCodes == {0, 1}

\* Bodies around the limit: empty, one character short of it, exactly at
\* it, one and many characters over it, in one run or two.
Bodies ==
    {<<>>, <<Run("x", Limit - 1)>>, <<Run("x", Limit)>>, <<Run("x", Limit + 1)>>,
     <<Run("x", Limit - 1), Run("y", 1)>>, <<Run("x", Limit - 1), Run("y", 2)>>,
     <<Run("x", 1), Run("y", Limit + Limit)>>}

Reduced == {<<>>, <<Run("x", Limit)>>, <<Run("x", Limit), Run("y", 1)>>}

Responses ==
    [status : {200, 404}, text : Bodies, stripped : Reduced, json : BOOLEAN,
     jsonText : Reduced]

Min(x, y) == IF x <= y THEN x ELSE y

InitProc ==
    /\ fs = FileFS
    /\ cwd = <<>>
    /\ call = NoCall
    /\ linesep = <<"LF">>
    /\ guardIn = <<>>
    /\ guardOut = <<>>
    /\ proc = IdleProc
    /\ programs \in ProgramSets
    /\ procs = <<>>
    /\ children = <<>>

Step(h) ==
    /\ proc' = h
    /\ UNCHANGED <<fileVars, programs, procs, children>>

RunPowershell ==
    /\ proc.pc = "idle"
    /\ \E a \in PowershellArgs : Step(run_powershell(fs, cwd, programs, a))

RunGit ==
    /\ proc.pc = "idle"
    /\ \E a \in GitArgs : Step(run_git(fs, cwd, programs, a))

FetchUrl ==
    /\ proc.pc = "idle"
    /\ \E a \in UrlArgs : Step(fetch_url(a))

HttpRequest ==
    /\ proc.pc = "idle"
    /\ \E a \in RequestArgs : Step(http_request(a))

\* The child reads its input: end of file at once on the null device; on the
\* server's own input it waits for the bytes of the client protocol.
ChildReadsInput ==
    /\ proc.child.state = "running"
    /\ proc.child.read = "none"
    /\ Step([proc EXCEPT !.child.read =
                IF proc.child.stdin = "DEVNULL" THEN "eof" ELSE "blocked"])

\* The child exits by itself, having written its output; a process it has
\* started may still hold its output pipes open.
ChildExits ==
    /\ proc.child.state = "running"
    /\ proc.child.read # "blocked"
    /\ \E rc \in ReturnCodes, out \in OutputBytes, err \in OutputBytes,
          p \in {"open", "closed"} :
            Step([proc EXCEPT !.child.state = "exited", !.child.returncode = rc,
                              !.child.stdout = out, !.child.stderr = err,
                              !.child.pipes = p])

\* The last holder of the output pipes closes them.
PipesClose ==
    /\ proc.child.state = "exited"
    /\ proc.child.pipes = "open"
    /\ Step([proc EXCEPT !.child.pipes = "closed"])

\* The operating system ends the killed child.
ChildDies ==
    /\ proc.child.state = "killed"
    /\ \E p \in {"open", "closed"} :
            Step([proc EXCEPT !.child.state = "exited", !.child.returncode = -9,
                              !.child.pipes = p])

\* Time passes, up to the deadline of the pending await.
Tick ==
    /\ proc.pc \in {"communicate", "request"}
    /\ proc.elapsed < Timeout(proc.name)
    /\ Step([proc EXCEPT !.elapsed = Min(@ + Quantum, Timeout(proc.name))])

\* communicate() returns once the child has exited and both pipes are at end
\* of file.
CommunicateReturns ==
    /\ proc.pc = "communicate"
    /\ proc.child.state = "exited"
    /\ proc.child.pipes = "closed"
    /\ Step(communicate_done(proc))

DeadlineExpires ==
    /\ proc.pc = "communicate"
    /\ proc.elapsed = Timeout(proc.name)
    /\ Step(deadline(proc))

TimeoutKill ==
    /\ proc.pc = "cancelling"
    /\ Step(timeout_kill(proc))

\* process.wait() returns once the transport has finished: the child has
\* exited and both pipes are at end of file.
WaitReturns ==
    /\ proc.pc = "wait"
    /\ proc.child.state = "exited"
    /\ proc.child.pipes = "closed"
    /\ Step(wait_done(proc))

\* Bytes of the exchange arrive: the timeout of the HTTP client bounds each
\* wait for the peer, not the whole exchange.
HttpProgress ==
    /\ proc.pc = "request"
    /\ proc.elapsed > 0
    /\ Step([proc EXCEPT !.elapsed = 0])

HttpResponds ==
    /\ proc.pc = "request"
    /\ \E r \in Responses :
            Step(IF proc.name = "fetch_url" THEN fetch_done(proc, r)
                 ELSE http_done(proc, r))

\* except httpx.TimeoutException
HttpTimesOut ==
    /\ proc.pc = "request"
    /\ proc.elapsed = Timeout(proc.name)
    /\ Step(Return(proc, TimedOut(proc.name)))

\* except Exception
HttpFails ==
    /\ proc.pc = "request"
    /\ Step(Return(proc, Text(ErrorText(proc.name), "ConnectError")))

\* The transport sends the reply; the next request can be handled.
ReplyProc ==
    /\ proc.pc = "returned"
    /\ Step(IdleProc)

NextProc ==
    \/ RunPowershell
    \/ RunGit
    \/ FetchUrl
    \/ HttpRequest
    \/ ChildReadsInput
    \/ ChildExits
    \/ PipesClose
    \/ ChildDies
    \/ Tick
    \/ CommunicateReturns
    \/ DeadlineExpires
    \/ TimeoutKill
    \/ WaitReturns
    \/ HttpProgress
    \/ HttpResponds
    \/ HttpTimesOut
    \/ HttpFails
    \/ ReplyProc

SpecProc == InitProc /\ [][NextProc]_vars

\* The event loop runs every handler that can continue, time passes, and
\* the operating system ends a killed process.  Nothing obliges a child to
\* exit, a descendant to close the pipes or a peer to answer.
FairSpecProc ==
    /\ SpecProc
    /\ WF_vars(Tick)
    /\ WF_vars(CommunicateReturns)
    /\ WF_vars(DeadlineExpires)
    /\ WF_vars(TimeoutKill)
    /\ WF_vars(WaitReturns)
    /\ WF_vars(HttpTimesOut)
    /\ WF_vars(ChildDies)

----------------------------------------------------------------------------
(* Overlapping invocations.  The event loop runs several call_tool         *)
(* coroutines at a time: procs[i] is invocation i (h, the record the       *)
(* handler steps act on, and process, the handle its local variable        *)
(* process holds: a process id, 0 before the spawn); children[p] is the    *)
(* process with id p, with the invocation that spawned it (owner) and the  *)
(* invocations that have sent it the kill signal (killedBy).  One clock    *)
(* runs for all of them.  The invocations are of run_git and fetch_url;    *)
(* run_powershell goes through the same steps as run_git.                  *)

MaxInvocations == 2   \* invocations in progress at a time

Slots == 1..MaxInvocations
Pids == 1..MaxInvocations

NoEntry == [child |-> NoChild, owner |-> 0, killedBy |-> {}]

ConcArgs ==
    {<<"run_git", [ProcNoArgs EXCEPT !.keys = {"args", "working_directory"},
                                     !.args = <<"s">>,
                                     !.working_directory = Flat(<<A>>)]>>,
     <<"fetch_url", [ProcNoArgs EXCEPT !.keys = {"url", "raw"}, !.url = <<"u">>,
                                       !.raw = TRUE]>>}

ConcOutputs == {<<"o">>}

ConcResponse ==
    [status |-> 200, text |-> <<Run("x", 1)>>, stripped |-> <<>>, json |-> FALSE,
     jsonText |-> <<>>]

\* the handle invocation i would hold were it kept in one variable shared by
\* all invocations: the first child still there
process_shared(ps, ch, i) ==
    IF ps[i].process = 0 THEN 0
    ELSE CHOOSE p \in Pids :
            /\ ch[p].owner # 0
            /\ \A q \in Pids : ch[q].owner # 0 => p <= q

\* the local variable process of invocation i
process(ps, ch, i) == ps[i].process

\* invocation i as its handler sees it: its record, with the child its
\* handle refers to
Bound(ps, ch, i) ==
    LET p == process(ps, ch, i)
    IN  [ps[i].h EXCEPT !.child = IF p = 0 THEN NoChild ELSE ch[p].child]

InitConc ==
    /\ fs = FileFS
    /\ cwd = <<>>
    /\ call = NoCall
    /\ linesep = <<"LF">>
    /\ guardIn = <<>>
    /\ guardOut = <<>>
    /\ proc = IdleProc
    /\ programs = {PowershellExe, GitCmd}
    /\ procs = [i \in Slots |-> [h |-> IdleProc, process |-> 0]]
    /\ children = [p \in Pids |-> NoEntry]

\* A handler step of invocation i leading to h2: the handler's record is
\* stored, and what the step did to the child goes to the process the
\* handle refers to.
ConcStep(i, h2) ==
    LET p == process(procs, children, i)
    IN  /\ procs' = [procs EXCEPT ![i].h = [h2 EXCEPT !.child = NoChild]]
        /\ children' =
             IF p = 0 THEN children
             ELSE [children EXCEPT
                     ![p].child = h2.child,
                     ![p].killedBy =
                        IF h2.child.state = "killed" /\ children[p].child.state = "running"
                        THEN @ \cup {i} ELSE @]
        /\ UNCHANGED <<fileVars, proc, programs>>

\* call_tool(name, arguments) starts as invocation i and runs to its first
\* await; a spawned child gets a free process id.
ConcStart ==
    \E i \in Slots, a \in ConcArgs :
        /\ procs[i].h.pc = "idle"
        /\ LET h2 == IF a[1] = "run_git" THEN run_git(fs, cwd, programs, a[2])
                     ELSE fetch_url(a[2])
               p == CHOOSE q \in Pids :
                        /\ children[q].owner = 0
                        /\ \A r \in Pids : children[r].owner = 0 => q <= r
           IN  IF h2.child.state = "none"
               THEN /\ procs' = [procs EXCEPT ![i] = [h |-> h2, process |-> 0]]
                    /\ UNCHANGED children
               ELSE /\ procs' = [procs EXCEPT
                                   ![i] = [h |-> [h2 EXCEPT !.child = NoChild],
                                           process |-> p]]
                    /\ children' = [children EXCEPT
                                      ![p] = [child |-> h2.child, owner |-> i,
                                              killedBy |-> {}]]
        /\ UNCHANGED <<fileVars, proc, programs>>

ConcChildExits ==
    \E p \in Pids, rc \in ReturnCodes, out \in ConcOutputs :
        /\ children[p].child.state = "running"
        /\ children' = [children EXCEPT
                          ![p].child = [@ EXCEPT !.state = "exited", !.returncode = rc,
                                                !.stdout = out, !.pipes = "closed"]]
        /\ UNCHANGED <<fileVars, proc, programs, procs>>

ConcChildDies ==
    \E p \in Pids :
        /\ children[p].child.state = "killed"
        /\ children' = [children EXCEPT
                          ![p].child = [@ EXCEPT !.state = "exited", !.returncode = -9,
                                                !.pipes = "closed"]]
        /\ UNCHANGED <<fileVars, proc, programs, procs>>

Waiting(h) == h.pc \in {"communicate", "request"}

\* Time passes for every pending await, none going past its deadline.
ConcTick ==
    /\ \E i \in Slots : Waiting(procs[i].h)
    /\ \A i \in Slots : Waiting(procs[i].h) => procs[i].h.elapsed < Timeout(procs[i].h.name)
    /\ procs' = [i \in Slots |->
                    IF Waiting(procs[i].h)
                    THEN [procs[i] EXCEPT
                            !.h.elapsed = Min(@ + Quantum, Timeout(procs[i].h.name))]
                    ELSE procs[i]]
    /\ UNCHANGED <<fileVars, proc, programs, children>>

ConcCommunicateReturns ==
    \E i \in Slots :
        LET h == Bound(procs, children, i)
        IN  /\ h.pc = "communicate"
            /\ h.child.state = "exited"
            /\ h.child.pipes = "closed"
            /\ ConcStep(i, communicate_done(h))

ConcDeadlineExpires ==
    \E i \in Slots :
        LET h == Bound(procs, children, i)
        IN  /\ h.pc = "communicate"
            /\ h.elapsed = Timeout(h.name)
            /\ ConcStep(i, deadline(h))

ConcTimeoutKill ==
    \E i \in Slots :
        LET h == Bound(procs, children, i)
        IN  /\ h.pc = "cancelling"
            /\ ConcStep(i, timeout_kill(h))

ConcWaitReturns ==
    \E i \in Slots :
        LET h == Bound(procs, children, i)
        IN  /\ h.pc = "wait"
            /\ h.child.state = "exited"
            /\ h.child.pipes = "closed"
            /\ ConcStep(i, wait_done(h))

ConcHttpResponds ==
    \E i \in Slots :
        LET h == Bound(procs, children, i)
        IN  /\ h.pc = "request"
            /\ ConcStep(i, fetch_done(h, ConcResponse))

ConcHttpTimesOut ==
    \E i \in Slots :
        LET h == Bound(procs, children, i)
        IN  /\ h.pc = "request"
            /\ h.elapsed = Timeout(h.name)
            /\ ConcStep(i, Return(h, TimedOut(h.name)))

\* The transport sends the reply of invocation i; the child it spawned, if
\* it is gone, leaves the process table.
ConcReply ==
    \E i \in Slots :
        /\ procs[i].h.pc = "returned"
        /\ \A p \in Pids : children[p].owner = i => children[p].child.state = "exited"
        /\ procs' = [procs EXCEPT ![i] = [h |-> IdleProc, process |-> 0]]
        /\ children' = [p \in Pids |-> IF children[p].owner = i THEN NoEntry
                                       ELSE children[p]]
        /\ UNCHANGED <<fileVars, proc, programs>>

NextConc ==
    \/ ConcStart
    \/ ConcChildExits
    \/ ConcChildDies
    \/ ConcTick
    \/ ConcCommunicateReturns
    \/ ConcDeadlineExpires
    \/ ConcTimeoutKill
    \/ ConcWaitReturns
    \/ ConcHttpResponds
    \/ ConcHttpTimesOut
    \/ ConcReply

SpecConc == InitConc /\ [][NextConc]_vars

----------------------------------------------------------------------------
(* C1 *)

\* root is loc itself or an ancestor of loc, compared segment by segment.
WithinRoot(root, loc) ==
    /\ Len(root) <= Len(loc)
    /\ \A i \in 1..Len(root) : loc[i] = root[i]

\* loc is canonical in f: no ".." segment, and no prefix of it is a link.
IsCanonical(f, loc) ==
    /\ \A i \in 1..Len(loc) : loc[i] # DotDot /\ loc[i] # Dot /\ loc[i] # <<>>
    /\ \A k \in 1..Len(loc) : ~IsLinkAt(f, SubSeq(loc, 1, k))

\* C1: is_path_allowed(P) is true exactly when the canonical resolution of P
\* (absolute, ".." and symbolic links resolved before the comparison) is an
\* allowed root or lies below one by whole path segments.
C1_AllowedIffWithinRoot ==
    guardOut # <<>> =>
        LET loc == resolve(fs, cwd, Path(guardIn))
        IN  /\ IsCanonical(fs, loc)
            /\ guardOut[1] = (\E root \in ALLOWED_PATHS : WithinRoot(root, loc))

\* The traversal path /a/../b has been checked and rejected.
C1_Witness ==
    /\ guardIn = <<"/", "a", "/", ".", ".", "/", "b">>
    /\ guardOut = <<FALSE>>

----------------------------------------------------------------------------
(* C2 *)

PathKeys(name) ==
    IF name \in {"copy_file", "move_file"} THEN {"source", "destination"}
    ELSE {"path"}

RequiredKeys(name) ==
    CASE name \in {"write_file", "append_to_file"} -> {"path", "content"}
      [] name \in {"copy_file", "move_file"} -> {"source", "destination"}
      [] name = "search_files" -> {"path", "pattern"}
      [] OTHER -> {"path"}

\* The path string s resolves, in file system f, outside every allowed root.
OutsideRoots(f, s) ==
    ~\E root \in ALLOWED_PATHS : WithinRoot(root, resolve(f, cwd, Path(s)))

\* C2: an invocation of one of the ten file operations that carries its
\* required arguments and in which some path argument resolves outside every
\* allowed root returns the path-not-allowed result and leaves the file
\* system exactly as it was; for copy_file and move_file one outside path
\* (source or destination) is enough.
C2_OutsideRejectedUnchanged ==
    ( /\ call.name \in FileTools
      /\ RequiredKeys(call.name) \subseteq call.arguments.keys
      /\ \E k \in PathKeys(call.name) : OutsideRoots(call.before, call.arguments[k]) )
    => /\ call.result = Text(PathNotAllowed, <<>>)
       /\ fs = call.before

\* copy_file from the allowed file /a/f to /b/f, outside, has been rejected.
C2_Witness ==
    /\ call.name = "copy_file"
    /\ call.arguments.keys = {"source", "destination"}
    /\ call.arguments.source = Flat(<<A, F>>)
    /\ call.arguments.destination = Flat(<<B, F>>)
    /\ call.result = Text(PathNotAllowed, <<>>)

----------------------------------------------------------------------------
(* C3 *)

\* C3: an invocation of run_powershell or run_git whose working_directory
\* resolves outside every allowed root starts no child process and returns
\* the path-not-allowed result.
C3_WorkingDirectoryChecked ==
    ( /\ proc.name \in {"run_powershell", "run_git"}
      /\ Has(proc.arguments, "working_directory")
      /\ OutsideRoots(fs, proc.arguments.working_directory) )
    => /\ proc.child.state = "none"
       /\ proc.pc = "returned" => proc.result.text = PathNotAllowed

----------------------------------------------------------------------------
(* C4 *)

\* C4: whatever the operation name and the argument map, call_tool returns
\* a text result and no exception leaves it.
C4_NoExceptionLeaves ==
    call.name # "none" => ~call.result.raised

----------------------------------------------------------------------------
(* C5 *)

\* C5: when the child of run_powershell or run_git is still running as its
\* deadline expires, the handler sends the kill signal, then waits for the
\* child, and only then returns; the result is the timed-out result and the
\* child is no longer running when it is returned.
C5_TimeoutKillsReapsThenReports ==
    (proc.pc = "returned" /\ proc.atDeadline = "running")
    => /\ proc.result.text = TimedOut(proc.name).text
       /\ proc.log = <<"spawn", "deadline", "kill", "wait", "return">>
       /\ proc.child.state = "exited"

----------------------------------------------------------------------------
(* C6 *)

\* C6: every invocation of a process-backed operation eventually returns
\* its result, whatever the child, its descendants and the HTTP peer do.
C6_EveryInvocationReturns ==
    (proc.pc # "idle") ~> (proc.pc = "returned")

----------------------------------------------------------------------------
(* C7 *)

\* C7: every child a handler has spawned has the null device as its input,
\* never the server's own input: a read of its input has returned end of
\* file and has not blocked on the bytes of the client protocol.
C7_ChildInputClosed ==
    proc.child.state # "none"
    => /\ proc.child.stdin = "DEVNULL"
       /\ proc.child.read \in {"none", "eof"}

\* The child of run_git has read its input and seen end of file.
C7_Witness ==
    /\ proc.name = "run_git"
    /\ proc.child.state = "running"
    /\ proc.child.stdin = "DEVNULL"
    /\ proc.child.read = "eof"

----------------------------------------------------------------------------
(* C8 *)

\* C8: after a successful write_file(p, c), read_file(p) returns exactly c.
C8_WriteThenReadReturnsContent ==
    (call.name = "write_file" /\ call.result.text = "Successfully wrote")
    => read_file(fs, cwd, linesep,
                 [NoArgs EXCEPT !.keys = {"path"}, !.path = call.arguments.path]).result
       = Text("", call.arguments.content)

----------------------------------------------------------------------------
(* C9 *)

\* What the file at path string s holds in f (nothing when there is none).
Stored(f, s) ==
    LET r == lookup(f, cwd, Path(s), TRUE)
    IN  IF r.err = "" /\ IsFileAt(f, r.loc) THEN f[r.loc].content ELSE <<>>

\* C9: after a successful append_to_file(p, c) the file holds what it held
\* before (nothing if it did not exist) followed by exactly c.
C9_AppendConcatenates ==
    (call.name = "append_to_file" /\ call.result.text = "Successfully appended")
    => /\ path_is_file(fs, cwd, Path(call.arguments.path))
       /\ Stored(fs, call.arguments.path)
            = Stored(call.before, call.arguments.path) \o call.arguments.content

----------------------------------------------------------------------------
(* C10 *)

\* The lexical ancestors of a path, the nearest last.
Ancestors(p) ==
    {[p EXCEPT !.parts = SubSeq(p.parts, 1, k)] : k \in 0..(Len(p.parts) - 1)}

\* copy_file / move_file was called with an existing allowed source file
\* and an allowed destination whose parent does not exist, every ancestor
\* of the destination that does exist being a directory.
C10_Case ==
    /\ call.name \in {"copy_file", "move_file"}
    /\ call.arguments.keys = {"source", "destination"}
    /\ ~OutsideRoots(call.before, call.arguments.source)
    /\ ~OutsideRoots(call.before, call.arguments.destination)
    /\ path_is_file(call.before, cwd, Path(call.arguments.source))
    /\ ~path_exists(call.before, cwd, Parent(Path(call.arguments.destination)))
    /\ \A q \in Ancestors(Path(call.arguments.destination)) :
          path_exists(call.before, cwd, q) => path_is_dir(call.before, cwd, q)

\* C10: in that case the operation succeeds, every ancestor of the
\* destination is a directory afterwards, the destination holds the
\* source's content, and the source is still there with its content after
\* copy_file and gone after move_file.
C10_CopyMoveCreateAncestors ==
    C10_Case =>
        /\ call.result.text =
              (IF call.name = "copy_file" THEN "Successfully copied"
               ELSE "Successfully moved")
        /\ \A q \in Ancestors(Path(call.arguments.destination)) : path_is_dir(fs, cwd, q)
        /\ path_is_file(fs, cwd, Path(call.arguments.destination))
        /\ Stored(fs, call.arguments.destination)
              = Stored(call.before, call.arguments.source)
        /\ IF call.name = "copy_file"
           THEN /\ path_is_file(fs, cwd, Path(call.arguments.source))
                /\ Stored(fs, call.arguments.source)
                      = Stored(call.before, call.arguments.source)
           ELSE ~path_exists(fs, cwd, Path(call.arguments.source))

\* move_file of a non-empty file to /a/f/d/f when neither /a/f/d nor /a/f
\* existed: several ancestors were created.
C10_Witness ==
    /\ C10_Case
    /\ call.name = "move_file"
    /\ call.arguments.destination = Flat(<<A, F, D, F>>)
    /\ ~Exists(call.before, <<A, F>>)
    /\ Stored(fs, call.arguments.destination) = <<"x">>
    /\ IsDirAt(fs, <<A, F, D>>)

----------------------------------------------------------------------------
(* C11 *)

\* The files of file system f below the directory at loc whose own name
\* matches the pattern g: anywhere in the tree under loc, or directly in it.
\* A file is what Path.is_file() tells: a regular file, or a link to one.
MatchingFiles(f, loc, g, recursive) ==
    {l \in DOMAIN f :
        /\ IsPrefix(loc, l)
        /\ IF recursive THEN Len(l) > Len(loc) ELSE Len(l) = Len(loc) + 1
        /\ KindFollowed(f, l) = "file"
        /\ fnmatch(Last(l), g)}

Range(seq) == {seq[i] : i \in 1..Len(seq)}

\* C11: search_files on an allowed existing directory returns exactly the
\* files under it (directly in it when recursive is false) whose own name
\* matches the pattern, each once, and the no-matches message when there is
\* none.
C11_SearchReturnsExactlyMatches ==
    ( /\ call.name = "search_files"
      /\ {"path", "pattern"} \subseteq call.arguments.keys
      /\ is_path_allowed(call.before, cwd, Path(call.arguments.path))
      /\ path_is_dir(call.before, cwd, Path(call.arguments.path)) )
    => LET loc == lookup(call.before, cwd, Path(call.arguments.path), TRUE).loc
           recursive == IF Has(call.arguments, "recursive")
                        THEN call.arguments.recursive ELSE TRUE
           expected == MatchingFiles(call.before, loc, call.arguments.pattern, recursive)
       IN  IF expected = {} THEN call.result.text = "No files matching"
           ELSE /\ call.result.text = "Found"
                /\ Range(call.result.body) = expected
                /\ Len(call.result.body) = Cardinality(expected)

----------------------------------------------------------------------------
(* C12 *)

\* The body the truncation is applied to: the response text, reduced by
\* strip_html or re-serialised as JSON where the handler does so.
ProcessedBody(h) ==
    IF h.name = "fetch_url"
    THEN (IF Has(h.arguments, "raw") /\ h.arguments.raw THEN h.response.text
          ELSE h.response.stripped)
    ELSE (IF h.response.json THEN h.response.jsonText ELSE h.response.text)

\* p is a prefix of the text t (both in runs)
IsTextPrefix(p, t) ==
    \/ p = <<>>
    \/ /\ Len(p) <= Len(t)
       /\ \A i \in 1..(Len(p) - 1) : p[i] = t[i]
       /\ p[Len(p)].ch = t[Len(p)].ch
       /\ p[Len(p)].n <= t[Len(p)].n

\* C12: fetch_url and http_request render a body of at most 50,000
\* characters unchanged, and a longer one as its first 50,000 characters
\* followed by the truncation marker: 50,000 plus the marker's length
\* characters, whatever the length of the body.
C12_TruncatedAtLimit ==
    (proc.pc = "returned" /\ proc.result.text = "Status")
    => LET body == ProcessedBody(proc)
           rendered == proc.result.body.content
       IN  IF Length(body) <= Limit THEN rendered = body
           ELSE /\ Length(rendered) = Limit + MarkerLen
                /\ rendered # <<>>
                /\ <<rendered[Len(rendered)]>> = TruncationMarker
                /\ LET p == SubSeq(rendered, 1, Len(rendered) - 1)
                   IN  IsTextPrefix(p, body) /\ Length(p) = Limit

\* http_request has returned a body of 100,000 characters cut to its first
\* 50,000 and the marker.
C12_Witness ==
    /\ proc.pc = "returned"
    /\ proc.name = "http_request"
    /\ proc.result.text = "Status"
    /\ ~proc.response.json
    /\ proc.response.text = <<Run("x", 1), Run("y", Limit + Limit)>>
    /\ proc.result.body.content =
         <<Run("x", 1), Run("y", Limit - 1)>> \o TruncationMarker

----------------------------------------------------------------------------
(* C13 *)

\* C13: when an invocation of run_powershell or run_git that has spawned a
\* child returns its result, on whichever path (communicate() completed, an
\* exception caught after the spawn, the timeout path), that child has
\* terminated and has been waited for.
C13_ChildReapedAtReturn ==
    ( /\ proc.pc = "returned"
      /\ proc.name \in {"run_powershell", "run_git"}
      /\ proc.child.state # "none" )
    => proc.child.state = "exited"

\* The timeout path has returned: the child was running at the deadline, was
\* killed and waited for.
C13_Witness ==
    /\ proc.pc = "returned"
    /\ proc.name = "run_powershell"
    /\ proc.log = <<"spawn", "deadline", "kill", "wait", "return">>
    /\ proc.child.state = "exited"
    /\ proc.child.returncode = -9

----------------------------------------------------------------------------
(* C14 *)

\* C14: overlapping invocations are independent.  Each holds the handle of
\* the child it spawned and no two hold the same; a child is sent the kill
\* signal only by the invocation that spawned it; a timeout is reported only
\* by an invocation whose own deadline has expired; an exit-code result is
\* rendered from the exit code and output of the invocation's own child.
C14_InvocationsIndependent ==
    /\ \A i \in Slots :
          procs[i].process # 0 =>
             /\ children[procs[i].process].owner = i
             /\ \A j \in Slots \ {i} : procs[j].process # procs[i].process
    /\ \A p \in Pids : children[p].killedBy \subseteq {children[p].owner}
    /\ \A i \in Slots :
          LET h == procs[i].h
          IN  /\ (\E k \in 1..Len(h.log) : h.log[k] = "deadline")
                   => h.elapsed = Timeout(h.name)
              /\ (h.pc = "returned" /\ h.result.text = TimedOut(h.name).text)
                   => h.elapsed = Timeout(h.name)
              /\ (h.pc = "returned" /\ h.result.text = "Exit code")
                   => \E p \in Pids :
                         /\ children[p].owner = i
                         /\ h.result = render_git(children[p].child)

\* Two invocations of run_git overlap: one has timed out, having killed its
\* own child, the other has returned the exit code of its own child, which
\* nobody killed.
C14_Witness ==
    \E i \in Slots, j \in Slots :
        /\ i # j
        /\ procs[i].h.pc = "returned"
        /\ procs[i].h.result.text = TimedOut("run_git").text
        /\ procs[i].process # 0
        /\ children[procs[i].process].killedBy = {i}
        /\ procs[j].h.pc = "returned"
        /\ procs[j].h.name = "run_git"
        /\ procs[j].h.result.text = "Exit code"
        /\ procs[j].process # 0
        /\ children[procs[j].process].killedBy = {}
        /\ children[procs[j].process].child.returncode = 1

----------------------------------------------------------------------------
(* C15 *)

\* t is the text s without the whitespace at its two ends
IsStripped(t, s) ==
    \E i \in 1..(Len(s) + 1), j \in 0..Len(s) :
        /\ t = SubSeq(s, i, j)
        /\ \A k \in 1..(i - 1) : s[k] \in Whitespace
        /\ \A k \in (j + 1)..Len(s) : s[k] \in Whitespace
        /\ t # <<>> => (t[1] \notin Whitespace /\ t[Len(t)] \notin Whitespace)

\* t is the byte string b decoded, each invalid byte replaced
IsDecoded(t, b) ==
    /\ Len(t) = Len(b)
    /\ \A k \in 1..Len(b) : t[k] = IF b[k] = "BAD" THEN "U+FFFD" ELSE b[k]

NoOutputMarkers ==
    {<<"(no output)">>, <<"(Command executed successfully with no output)">>,
     <<"(Command failed with exit code but no output)">>}

\* The combined output of the texts out and err.
IsCombined(output, out, err) ==
    IF out = <<>> /\ err = <<>> THEN output \in NoOutputMarkers
    ELSE IF err = <<>> THEN output = out
    ELSE IF out = <<>> THEN output = err
    ELSE output = out \o <<"\n--- STDERR ---\n">> \o err

----------------------------------------------------------------------------
(* C16 *)

\* The tools that change the file system.
ChangingTools ==
    {"write_file", "append_to_file", "delete_file", "copy_file", "move_file"}

\* The results of the changing tools that report an error.
ErrorMessages ==
    {PathNotAllowed, "Error writing file", "Error appending to file",
     "Error: File not found", "Error deleting file",
     "Error: not a file. Use rmdir for directories.",
     "Error: Source file not found", "Error copying file", "Error moving file"}

ReturnedError ==
    /\ call.name \in ChangingTools
    /\ ~call.result.raised
    /\ call.result.text \in ErrorMessages

\* C16: a write_file, append_to_file, delete_file, copy_file or move_file
\* whose result is an error message leaves the file system exactly as it was
\* before the invocation: no content changed, no file or directory (ancestor
\* directories of the destination included) created or removed.
C16_ErrorLeavesFileSystemUnchanged == ReturnedError => fs = call.before

====
